---- MODULE Spec2Model ----
(***************************************************************************)
(* A model of ruxl (src/src/lib.rs, src/src/monad.rs): the Fetch effect    *)
(* value, its combinators (pure, throw, new, bind, fmap, ap, catch, ap2,   *)
(* sequence), the evaluator Fetch::run and the parallel executor           *)
(* AbsRequest::run_all.                                                    *)
(*                                                                         *)
(* A Fetch is a boxed FnOnce closure.  It is modelled by a record naming   *)
(* the combinator that built the closure and the values it captured; the   *)
(* operator force(t, h) is the call t.get()() of that closure on the heap  *)
(* h of status cells.  The thunks of one batch run interleaved: each has a *)
(* start step (request.run() begins) and a finish step (the status cell is *)
(* written under its lock).                                                *)
(***************************************************************************)
EXTENDS Integers, Sequences, FiniteSets, TLC

VARIABLES
    root,      \* history: the Fetch that run was called on
    cur,       \* the Fetch that run is about to force (self in Fetch::run)
    pc,        \* "run" | "run_all" | "done" | "panic"
    cells,     \* cells[c]: the FetchStatus held by the Arc<Mutex<..>> number c
    reqs,      \* reqs[c]: the request captured by the thunk that writes cell c
    pending,   \* thunks of the current batch that have not started
    running,   \* thunks of the current batch inside request.run()
    result,    \* the value returned by run
    reads,     \* history: reads[c] counts the reads of cell c by its continuation
    writes,    \* history: writes[c] counts the writes of cell c by its thunk
    started,   \* history: the thunks that have started, ever
    dropped,   \* history: thunks discarded by the (Throw, _) arm of ap
    events,    \* history: user closures invoked and errors produced, in order
    order,     \* history: the thunks in the order they finished
    batches    \* history: the argument of every run_all call, in order

vars == <<root, cur, pc, cells, reqs, pending, running, result,
          reads, writes, started, dropped, events, order, batches>>

-----------------------------------------------------------------------------
(* Bounds of the model.                                                    *)

MaxVal == 2
MaxSeq == 3

-----------------------------------------------------------------------------
(* Values.  Every value is a record of one shape so that the values of a   *)
(* Fetch<T> for the different T can be held in one set.                    *)

IntV(n) == [fn |-> "int", n |-> n, args |-> <<>>]
VecV(xs) == [fn |-> "vec", n |-> 0, args |-> xs]
Clo(name, captured) == [fn |-> name, n |-> 0, args |-> captured]

\* ExceptionType, lib.rs 44-50.  The payloads of Msg and HttpError are a label.
ExcType(kind, arg) == [kind |-> kind, arg |-> arg]
NoType == ExcType("none", 0)
Msg == ExcType("Msg", 1)
HttpError == ExcType("HttpError", 404)
OutOfMemory == ExcType("OutOfMemory", 0)
Timeout == ExcType("Timeout", 0)
ExceptionType == {Msg, HttpError, OutOfMemory, Timeout}

\* Exception, lib.rs 52-56.
ErrE(t) == [tag |-> "Err", ty |-> t]
Nothing == [tag |-> "Nothing", ty |-> NoType]
Exception == {ErrE(t) : t \in ExceptionType} \cup {Nothing}

\* RequestResult<T> = Result<T, Exception>, lib.rs 5.
Ok(v) == [tag |-> "Ok", v |-> v, e |-> Nothing]
Err(e) == [tag |-> "Err", v |-> IntV(0), e |-> e]

\* FnRequest, lib.rs 12-26: a closure returning a fixed RequestResult.  The id
\* names the request in the batches.
FnRequest(id, out) == [id |-> id, out |-> out]

\* FetchStatus<T>, lib.rs 59-63.
NotFetched == [tag |-> "NotFetched", v |-> IntV(0), e |-> Nothing]
FetchSuccess(v) == [tag |-> "FetchSuccess", v |-> v, e |-> Nothing]
FetchException(e) == [tag |-> "FetchException", v |-> IntV(0), e |-> e]

\* ReqResult<T>, lib.rs 65-69.  Panic is the unwinding of unreachable!().
Done(v) == [tag |-> "Done", v |-> v]
Blocked(br, c) == [tag |-> "Blocked", br |-> br, c |-> c]
Throw(e) == [tag |-> "Throw", e |-> e]
Panic == [tag |-> "Panic"]

-----------------------------------------------------------------------------
(* The closures user code passes in.  Call(f, x) is f(x).                  *)

RECURSIVE Call(_, _)
Call(f, x) ==
    CASE f.fn = "id" -> x
      [] f.fn = "inc" -> IntV(x.n + 1)
      \* |a| |b| 10 * a + b
      [] f.fn = "cat" -> Clo("cat_a", <<x>>)
      [] f.fn = "cat_a" -> IntV(10 * f.args[1].n + x.n)
      \* |a, b| 10 * a + b, called by the closures of ap2
      [] f.fn = "cat2" -> IntV(10 * x.args[1].n + x.args[2].n)
      \* ap_builder @fmap_lambda, lib.rs 219-227: |f| |x1| |x2| f(x1, x2)
      [] f.fn = "ap2_curry" -> Clo("ap2_x1", <<x>>)
      [] f.fn = "ap2_x1" -> Clo("ap2_x2", <<f.args[1], x>>)
      [] f.fn = "ap2_x2" -> Call(f.args[1], VecV(<<f.args[2], x>>))
      \* cons_f, lib.rs 289-294: |mut ys| |x| { ys.push(x); ys }
      [] f.fn = "cons" -> Clo("cons_ys", <<x>>)
      [] f.fn = "cons_ys" -> VecV(Append(f.args[1].args, x))

-----------------------------------------------------------------------------
(* Fetch values: the closure built by each combinator.                     *)

\* Fetch::pure, lib.rs 133-135
pure(a) == [tag |-> "pure", a |-> a]
\* throw, lib.rs 110-112
throw(e) == [tag |-> "throw", e |-> e]
\* Fetch::new, lib.rs 80-107 (the outer closure)
new(request) == [tag |-> "new", request |-> request]
\* the continuation of Fetch::new, lib.rs 97-104
reader(status) == [tag |-> "reader", status |-> status]
\* catch, lib.rs 114-130
catch(f, handler) == [tag |-> "catch", f |-> f, handler |-> handler]
\* Fetch::bind, lib.rs 146-156
bind(m, k) == [tag |-> "bind", m |-> m, k |-> k]
\* Fetch::fmap, lib.rs 158-164
fmap(m, f) == [tag |-> "fmap", m |-> m, f |-> f]
\* ap, lib.rs 183-202
ap(f, x) == [tag |-> "ap", f |-> f, x |-> x]

\* ap_builder!(ap2; ...), lib.rs 205-236: let f = f.fmap(|f| |x1| |x2| f(x1, x2));
\* ap(ap(f, x1), x2)
ap2(f, x1, x2) == ap(ap(fmap(f, Clo("ap2_curry", <<>>)), x1), x2)

\* cons_f, lib.rs 287-297
cons_f(ys, x) == ap(fmap(ys, Clo("cons", <<>>)), x)

\* a right fold, as in the comment of lib.rs 299-300
RECURSIVE fold_right(_, _)
fold_right(init, xs) ==
    IF xs = <<>> THEN init ELSE cons_f(fold_right(init, Tail(xs)), Head(xs))

\* Traversable::sequence, lib.rs 301-306: self.fold(pure(Vec::new()), cons_f)
RECURSIVE fold(_, _)
fold(init, xs) ==
    IF xs = <<>> THEN init ELSE fold(cons_f(init, Head(xs)), Tail(xs))

sequence(xs) == fold(pure(VecV(<<>>)), xs)

\* fetch!(_ <- x; rest), monad.rs 24-27: x.bind(move |_| { fetch!(rest) }),
\* and fetch!(a) with a an expression is a itself, monad.rs 43-46.
KConst(body) == [kind |-> "const", body |-> body]
fetch_const_bind(x, rest) == bind(x, KConst(rest))

\* The continuations given to bind: k(a) is a Fetch.
RECURSIVE KApply(_, _)
KApply(k, a) ==
    CASE k.kind = "const" -> k.body
      [] k.kind = "pure" -> pure(a)
      \* |a| Fetch::new(FnRequest::new(move || Ok(a + 1)))
      [] k.kind = "req" -> new(FnRequest(k.id, Ok(IntV(a.n + 1))))
      \* |x| k(x).bind(h)
      [] k.kind = "compose" -> bind(KApply(k.k, a), k.h)

\* The continuation |x| k(x).bind(h)
Compose(k, h) == [kind |-> "compose", k |-> k, h |-> h]

\* The handlers given to catch: handler(e) is a Fetch.
HApply(handler, ty) ==
    CASE handler.kind = "const" -> handler.body
      \* error_page, lib.rs 431-443: a pure Fetch for every ExceptionType
      [] handler.kind = "error_page" -> pure(IntV(ty.arg))
      [] handler.kind = "rethrow" -> throw(ErrE(ty))

-----------------------------------------------------------------------------
(* Forcing a Fetch: t.get()() on the heap h.  h holds the status cells and *)
(* the history the forcing adds to.  The result is [r, h]: the ReqResult   *)
(* and the heap after the call.                                            *)

Ev(kind, arg) == [ev |-> kind, arg |-> arg]

\* vec_merge without a.append(&mut b)
vec_merge_no_append(a, b) == IF Len(a) < Len(b) THEN b ELSE a

\* vec_merge, lib.rs 308-314
vec_merge(a, b) == IF Len(a) < Len(b) THEN b \o a ELSE a \o b

Cells(br) == {br[i] : i \in 1..Len(br)}

RECURSIVE force(_, _)

\* Fetch::new blocking without handing its thunk over
new_force_no_thunk(request, h) ==
    LET status == Len(h.cells) + 1
    IN  [r |-> Blocked(<<>>, reader(status)),
         h |-> [h EXCEPT !.cells = Append(@, NotFetched),
                         !.reqs = Append(@, request),
                         !.reads = Append(@, 0)]]

\* Fetch::new running its request when forced, instead of in the thunk
new_force_eager(request, h) ==
    LET status == Len(h.cells) + 1
    IN  [r |-> Blocked(<<status>>, reader(status)),
         h |-> [h EXCEPT !.cells = Append(@, IF request.out.tag = "Ok"
                                             THEN FetchSuccess(request.out.v)
                                             ELSE FetchException(request.out.e)),
                         !.reqs = Append(@, request),
                         !.reads = Append(@, 0)]]

\* Fetch::new's closure, lib.rs 81-106: a fresh cell, the thunk that writes it
\* and the continuation that reads it.
new_force(request, h) ==
    LET status == Len(h.cells) + 1
    IN  [r |-> Blocked(<<status>>, reader(status)),
         h |-> [h EXCEPT !.cells = Append(@, NotFetched),
                         !.reqs = Append(@, request),
                         !.reads = Append(@, 0)]]

\* The continuation reading the cell through a clone, without mem::replace
reader_force_no_reset(status, h) ==
    LET v == h.cells[status]
        h2 == [h EXCEPT !.reads[status] = @ + 1]
    IN  CASE v.tag = "FetchSuccess" -> [r |-> Done(v.v), h |-> h2]
          [] v.tag = "FetchException" ->
                [r |-> Throw(v.e),
                 h |-> [h2 EXCEPT !.events = Append(@, Ev("read_error", v.e))]]
          [] OTHER -> [r |-> Panic, h |-> h2]

\* The continuation of Fetch::new, lib.rs 97-104: mem::replace(v, NotFetched)
reader_force(status, h) ==
    LET v == h.cells[status]
        h2 == [h EXCEPT !.cells[status] = NotFetched, !.reads[status] = @ + 1]
    IN  CASE v.tag = "FetchSuccess" -> [r |-> Done(v.v), h |-> h2]
          [] v.tag = "FetchException" ->
                [r |-> Throw(v.e),
                 h |-> [h2 EXCEPT !.events = Append(@, Ev("read_error", v.e))]]
          [] OTHER -> [r |-> Panic, h |-> h2]

\* throw's closure, lib.rs 111
throw_force(e, h) ==
    [r |-> Throw(e), h |-> [h EXCEPT !.events = Append(@, Ev("throw", e))]]

\* catch whose Blocked arm forgets catch(c, handler)
catch_force_drop_handler(f, handler, h) ==
    LET o == force(f, h)
    IN  CASE o.r.tag = "Throw" ->
                IF o.r.e.tag = "Err"
                THEN force(HApply(handler, o.r.e.ty),
                           [o.h EXCEPT !.events =
                                Append(@, Ev("handler", o.r.e))])
                ELSE [r |-> Throw(o.r.e),
                      h |-> [o.h EXCEPT !.events =
                                Append(@, Ev("uncaught", o.r.e))]]
          [] OTHER -> o

\* catch wrapping the continuation of the handler's Fetch in the handler
catch_force_rewrap(f, handler, h) ==
    LET o == force(f, h)
    IN  CASE o.r.tag = "Done" -> o
          [] o.r.tag = "Blocked" ->
                [r |-> Blocked(o.r.br, catch(o.r.c, handler)), h |-> o.h]
          [] o.r.tag = "Throw" ->
                IF o.r.e.tag = "Err"
                THEN LET o2 == force(HApply(handler, o.r.e.ty),
                                     [o.h EXCEPT !.events =
                                          Append(@, Ev("handler", o.r.e))])
                     IN  IF o2.r.tag = "Blocked"
                         THEN [r |-> Blocked(o2.r.br, catch(o2.r.c, handler)),
                               h |-> o2.h]
                         ELSE o2
                ELSE [r |-> Throw(o.r.e),
                      h |-> [o.h EXCEPT !.events =
                                Append(@, Ev("uncaught", o.r.e))]]
          [] OTHER -> o

\* catch's closure, lib.rs 119-129
catch_force(f, handler, h) ==
    LET o == force(f, h)
    IN  CASE o.r.tag = "Done" -> o
          [] o.r.tag = "Blocked" ->
                [r |-> Blocked(o.r.br, catch(o.r.c, handler)), h |-> o.h]
          [] o.r.tag = "Throw" ->
                IF o.r.e.tag = "Err"
                THEN force(HApply(handler, o.r.e.ty),
                           [o.h EXCEPT !.events =
                                Append(@, Ev("handler", o.r.e))])
                ELSE [r |-> Throw(o.r.e),
                      h |-> [o.h EXCEPT !.events =
                                Append(@, Ev("uncaught", o.r.e))]]
          [] OTHER -> o

\* bind whose Blocked arm forgets c.bind(k)
bind_force_drop_k(m, k, h) ==
    LET o == force(m, h)
    IN  CASE o.r.tag = "Done" ->
                force(KApply(k, o.r.v),
                      [o.h EXCEPT !.events = Append(@, Ev("k", o.r.v))])
          [] OTHER -> o

\* bind whose Blocked arm goes on with m itself instead of c
bind_force_restart(m, k, h) ==
    LET o == force(m, h)
    IN  CASE o.r.tag = "Done" ->
                force(KApply(k, o.r.v),
                      [o.h EXCEPT !.events = Append(@, Ev("k", o.r.v))])
          [] o.r.tag = "Blocked" ->
                [r |-> Blocked(o.r.br, bind(m, k)), h |-> o.h]
          [] OTHER -> o

\* bind going on with k on a default value when m throws
bind_force_k_on_throw(m, k, h) ==
    LET o == force(m, h)
    IN  CASE o.r.tag = "Done" ->
                force(KApply(k, o.r.v),
                      [o.h EXCEPT !.events = Append(@, Ev("k", o.r.v))])
          [] o.r.tag = "Blocked" ->
                [r |-> Blocked(o.r.br, bind(o.r.c, k)), h |-> o.h]
          [] o.r.tag = "Throw" ->
                force(KApply(k, IntV(0)),
                      [o.h EXCEPT !.events = Append(@, Ev("k", IntV(0)))])
          [] OTHER -> o

\* bind whose Blocked arm leaves a continuation that is a bind as it is
bind_force_flatten(m, k, h) ==
    LET o == force(m, h)
    IN  CASE o.r.tag = "Done" ->
                force(KApply(k, o.r.v),
                      [o.h EXCEPT !.events = Append(@, Ev("k", o.r.v))])
          [] o.r.tag = "Blocked" ->
                [r |-> Blocked(o.r.br, IF o.r.c.tag = "bind" THEN o.r.c
                                       ELSE bind(o.r.c, k)),
                 h |-> o.h]
          [] OTHER -> o

\* bind's closure, lib.rs 148-155
bind_force(m, k, h) ==
    LET o == force(m, h)
    IN  CASE o.r.tag = "Done" ->
                force(KApply(k, o.r.v),
                      [o.h EXCEPT !.events = Append(@, Ev("k", o.r.v))])
          [] o.r.tag = "Blocked" ->
                [r |-> Blocked(o.r.br, bind(o.r.c, k)), h |-> o.h]
          [] OTHER -> o

\* fmap's closure, lib.rs 159-163
fmap_force(m, f, h) ==
    LET o == force(m, h)
    IN  CASE o.r.tag = "Done" ->
                [r |-> Done(Call(f, o.r.v)),
                 h |-> [o.h EXCEPT !.events = Append(@, Ev("f", o.r.v))]]
          [] o.r.tag = "Blocked" ->
                [r |-> Blocked(o.r.br, fmap(o.r.c, f)), h |-> o.h]
          [] OTHER -> o

\* ap treating (Throw, Blocked) like (Blocked, Throw): the requests of x run
ap_match_throw_keeps_x(rf, rx, h) ==
    CASE rf.tag = "Done" /\ rx.tag = "Done" ->
            [r |-> Done(Call(rf.v, rx.v)), h |-> h]
      [] rf.tag = "Done" /\ rx.tag = "Blocked" ->
            [r |-> Blocked(rx.br, fmap(rx.c, rf.v)), h |-> h]
      [] rf.tag = "Blocked" /\ rx.tag = "Done" ->
            [r |-> Blocked(rf.br, ap(rf.c, pure(rx.v))), h |-> h]
      [] rf.tag = "Blocked" /\ rx.tag = "Blocked" ->
            [r |-> Blocked(vec_merge(rf.br, rx.br), ap(rf.c, rx.c)), h |-> h]
      [] rf.tag = "Done" /\ rx.tag = "Throw" ->
            [r |-> Throw(rx.e), h |-> h]
      [] rf.tag = "Throw" /\ rx.tag = "Blocked" ->
            [r |-> Blocked(rx.br, ap(throw(rf.e), rx.c)), h |-> h]
      [] rf.tag = "Throw" ->
            [r |-> Throw(rf.e), h |-> h]
      [] rf.tag = "Blocked" /\ rx.tag = "Throw" ->
            [r |-> Blocked(rf.br, ap(rf.c, throw(rx.e))), h |-> h]

\* ap whose (Blocked, Throw) arm loses the Throw
ap_match_loses_throw(rf, rx, h) ==
    CASE rf.tag = "Done" /\ rx.tag = "Done" ->
            [r |-> Done(Call(rf.v, rx.v)), h |-> h]
      [] rf.tag = "Done" /\ rx.tag = "Blocked" ->
            [r |-> Blocked(rx.br, fmap(rx.c, rf.v)), h |-> h]
      [] rf.tag = "Blocked" /\ rx.tag = "Done" ->
            [r |-> Blocked(rf.br, ap(rf.c, pure(rx.v))), h |-> h]
      [] rf.tag = "Blocked" /\ rx.tag = "Blocked" ->
            [r |-> Blocked(vec_merge(rf.br, rx.br), ap(rf.c, rx.c)), h |-> h]
      [] rf.tag = "Done" /\ rx.tag = "Throw" ->
            [r |-> Throw(rx.e), h |-> h]
      [] rf.tag = "Throw" ->
            [r |-> Throw(rf.e),
             h |-> IF rx.tag = "Blocked"
                   THEN [h EXCEPT !.dropped = @ \cup Cells(rx.br)]
                   ELSE h]
      [] rf.tag = "Blocked" /\ rx.tag = "Throw" ->
            [r |-> Blocked(rf.br, ap(rf.c, pure(IntV(0)))), h |-> h]

\* The match of ap's closure, lib.rs 189-201, on the two ReqResults.
ap_match(rf, rx, h) ==
    CASE rf.tag = "Done" /\ rx.tag = "Done" ->
            [r |-> Done(Call(rf.v, rx.v)), h |-> h]
      [] rf.tag = "Done" /\ rx.tag = "Blocked" ->
            [r |-> Blocked(rx.br, fmap(rx.c, rf.v)), h |-> h]
      [] rf.tag = "Blocked" /\ rx.tag = "Done" ->
            [r |-> Blocked(rf.br, ap(rf.c, pure(rx.v))), h |-> h]
      [] rf.tag = "Blocked" /\ rx.tag = "Blocked" ->
            [r |-> Blocked(vec_merge(rf.br, rx.br), ap(rf.c, rx.c)), h |-> h]
      [] rf.tag = "Done" /\ rx.tag = "Throw" ->
            [r |-> Throw(rx.e), h |-> h]
      [] rf.tag = "Throw" ->
            \* the Vec<AbsRequest> and the continuation of x are dropped
            [r |-> Throw(rf.e),
             h |-> IF rx.tag = "Blocked"
                   THEN [h EXCEPT !.dropped = @ \cup Cells(rx.br)]
                   ELSE h]
      [] rf.tag = "Blocked" /\ rx.tag = "Throw" ->
            [r |-> Blocked(rf.br, ap(rf.c, throw(rx.e))), h |-> h]

\* ap forcing x only once f is not Blocked, as bind does
ap_force_seq(f, x, h) ==
    LET of == force(f, h)
        ox == force(x, of.h)
    IN  IF of.r.tag = "Panic" THEN of
        ELSE IF of.r.tag = "Blocked"
        THEN [r |-> Blocked(of.r.br, ap(of.r.c, x)), h |-> of.h]
        ELSE IF ox.r.tag = "Panic" THEN ox
        ELSE ap_match(of.r, ox.r, ox.h)

\* ap's closure, lib.rs 189: the tuple (f.get()(), x.get()()) forces f, then x.
ap_force(f, x, h) ==
    LET of == force(f, h)
        ox == force(x, of.h)
    IN  IF of.r.tag = "Panic" THEN of
        ELSE IF ox.r.tag = "Panic" THEN ox
        ELSE ap_match(of.r, ox.r, ox.h)

\* Fetch::get and the call of the closure, lib.rs 141-143
force(t, h) ==
    CASE t.tag = "pure" -> [r |-> Done(t.a), h |-> h]
      [] t.tag = "throw" -> throw_force(t.e, h)
      [] t.tag = "new" -> new_force(t.request, h)
      [] t.tag = "reader" -> reader_force(t.status, h)
      [] t.tag = "catch" -> catch_force(t.f, t.handler, h)
      [] t.tag = "bind" -> bind_force(t.m, t.k, h)
      [] t.tag = "fmap" -> fmap_force(t.m, t.f, h)
      [] t.tag = "ap" -> ap_force(t.f, t.x, h)

\* The FetchStatus a thunk writes for the result of its request, lib.rs 90-93
Written(res) ==
    IF res.tag = "Ok" THEN FetchSuccess(res.v) ELSE FetchException(res.e)

\* AbsRequest::run_all with the thunks run one after the other, lib.rs 40
run_all(br, h) ==
    [h EXCEPT !.cells = [c \in 1..Len(h.cells) |->
                            IF c \in Cells(br) THEN Written(h.reqs[c].out)
                            ELSE h.cells[c]]]

\* Fetch::run as a function, lib.rs 166-180: the Result of running t from
\* the heap h, the number of batches, the requests of each batch in the
\* order of the Vec given to run_all, and the heap at the end.
RECURSIVE run(_, _)
run(t, h) ==
    LET o == force(t, h)
    IN  CASE o.r.tag = "Done" ->
                [res |-> Ok(o.r.v), n |-> 0, bs |-> <<>>, h |-> o.h]
          [] o.r.tag = "Throw" ->
                [res |-> Err(o.r.e), n |-> 0, bs |-> <<>>, h |-> o.h]
          [] o.r.tag = "Blocked" ->
                LET rest == run(o.r.c, run_all(o.r.br, o.h))
                IN  [res |-> rest.res, n |-> rest.n + 1,
                     bs |-> <<[j \in 1..Len(o.r.br) |-> o.h.reqs[o.r.br[j]]]>>
                            \o rest.bs,
                     h |-> rest.h]
          [] OTHER -> [res |-> [tag |-> "panic"], n |-> 0, bs |-> <<>>,
                       h |-> o.h]

EmptyHeap == [cells |-> <<>>, reqs |-> <<>>, reads |-> <<>>,
              dropped |-> {}, events |-> <<>>]

-----------------------------------------------------------------------------
(* The programs run is called on.                                          *)

Vals == {IntV(n) : n \in 1..MaxVal}
Errs == {ErrE(Msg), ErrE(Timeout), Nothing}
Outcomes == {Ok(v) : v \in Vals} \cup {Err(e) : e \in Errs}

\* lift2(f, ma, mb) with ma and mb a single new(req) each (tests::left_pane,
\* lib.rs 395-398, has this shape).
Ap2Progs ==
    {ap2(pure(Clo("cat2", <<>>)), new(FnRequest(1, o1)), new(FnRequest(2, o2))) :
        o1 \in Outcomes, o2 \in Outcomes}
    \cup
    {ap(ap(pure(Clo("cat", <<>>)), new(FnRequest(1, o1))), new(FnRequest(2, o2))) :
        o1 \in Outcomes, o2 \in Outcomes}

\* ma.bind(|_| mb), written with bind and with fetch!(_ <- ma; mb).
BindProgs ==
    {fetch_const_bind(new(FnRequest(1, o1)), new(FnRequest(2, o2))) :
        o1 \in Outcomes, o2 \in Outcomes}

\* [new(r1), ..., new(rn)].sequence() for n in 0..MaxSeq.
Items(n) ==
    {[i \in 1..n |-> new(FnRequest(i, o[i]))] : o \in [1..n -> Outcomes]}

SeqProgs == {sequence(xs) : xs \in UNION {Items(n) : n \in 0..MaxSeq}}

\* Compositions of every combinator, two levels deep, over these leaves.
Leaf ==
    {pure(IntV(1)), throw(ErrE(Msg)), throw(Nothing)}
    \cup {new(FnRequest(0, o)) :
            o \in {Ok(IntV(1)), Err(ErrE(Timeout)), Err(Nothing)}}

Ks == {KConst(l) : l \in Leaf} \cup {[kind |-> "pure"], [kind |-> "req", id |-> 0]}

Hs == {[kind |-> "error_page"], [kind |-> "rethrow"]}
      \cup {KConst(l) : l \in {new(FnRequest(0, Ok(IntV(2)))),
                                new(FnRequest(0, Err(ErrE(Timeout)))),
                                throw(Nothing)}}

\* lift2(|a, b| 10 * a + b, a, b) in the shape of cons_f
lift2(a, b) == ap(fmap(a, Clo("cat", <<>>)), b)

Level1 ==
    Leaf
    \cup {bind(m, k) : m \in Leaf, k \in Ks}
    \cup {fmap(m, Clo("inc", <<>>)) : m \in Leaf}
    \cup {lift2(a, b) : a \in Leaf, b \in Leaf}
    \cup {catch(m, handler) : m \in Leaf, handler \in Hs}

Level2 ==
    {bind(m, k) : m \in Level1, k \in Ks}
    \cup {fmap(m, Clo("inc", <<>>)) : m \in Level1}
    \cup {lift2(a, b) : a \in Level1, b \in Level1}
    \cup {catch(m, handler) : m \in Level1, handler \in Hs}

\* catch(m, error_page) over a sequence and over a bind of two requests
\* (tests::blog_with_crash, lib.rs 449-460, catches a composition this way).
HandledProgs ==
    {catch(m, [kind |-> "error_page"]) :
        m \in {sequence(xs) : xs \in Items(2)} \cup BindProgs}

\* m.bind(k).bind(h) and m.bind(|x| k(x).bind(h))
KsNested ==
    {KConst(new(FnRequest(0, Ok(IntV(1))))),
     KConst(new(FnRequest(0, Err(ErrE(Timeout))))),
     [kind |-> "pure"], [kind |-> "req", id |-> 0]}

NestedBinds ==
    {bind(bind(m, k), h) : m \in Level1, k \in KsNested, h \in KsNested}
    \cup {bind(m, Compose(k, h)) : m \in Leaf, k \in KsNested, h \in KsNested}

Programs ==
    Ap2Progs \cup BindProgs \cup SeqProgs \cup Level1 \cup Level2
    \cup HandledProgs \cup NestedBinds

-----------------------------------------------------------------------------
(* The evaluator.                                                          *)

Heap == [cells |-> cells, reqs |-> reqs, reads |-> reads,
         dropped |-> dropped, events |-> events]

Init ==
    /\ root \in Programs
    /\ cur = root
    /\ pc = "run"
    /\ cells = <<>>
    /\ reqs = <<>>
    /\ pending = {}
    /\ running = {}
    /\ result = [tag |-> "none"]
    /\ reads = <<>>
    /\ writes = <<>>
    /\ started = {}
    /\ dropped = {}
    /\ events = <<>>
    /\ order = <<>>
    /\ batches = <<>>

\* Fetch::run, lib.rs 172-179: force self and match on the ReqResult.  On
\* Blocked, run_all is entered with the batch.
Run ==
    /\ pc = "run"
    /\ LET o == force(cur, Heap)
       IN  /\ cells' = o.h.cells
           /\ reqs' = o.h.reqs
           /\ reads' = o.h.reads
           /\ dropped' = o.h.dropped
           /\ events' = IF o.r.tag = "Blocked"
                        THEN Append(o.h.events, Ev("batch", o.r.br))
                        ELSE o.h.events
           /\ writes' = writes \o [i \in 1..(Len(o.h.cells) - Len(cells)) |-> 0]
           /\ CASE o.r.tag = "Done" ->
                    /\ result' = Ok(o.r.v)
                    /\ pc' = "done"
                    /\ UNCHANGED <<cur, pending, batches>>
                [] o.r.tag = "Throw" ->
                    /\ result' = Err(o.r.e)
                    /\ pc' = "done"
                    /\ UNCHANGED <<cur, pending, batches>>
                [] o.r.tag = "Blocked" ->
                    /\ pending' = Cells(o.r.br)
                    /\ batches' = Append(batches, o.r.br)
                    /\ cur' = o.r.c
                    /\ pc' = "run_all"
                    /\ UNCHANGED result
                [] OTHER ->
                    /\ pc' = "panic"
                    /\ UNCHANGED <<cur, pending, batches, result>>
    /\ UNCHANGED <<root, running, started, order>>

\* One thunk of the batch is picked up by a worker, lib.rs 39, and enters
\* request.run(), lib.rs 88.
ThunkStart(c) ==
    /\ pc = "run_all"
    /\ c \in pending
    /\ pending' = pending \ {c}
    /\ running' = running \cup {c}
    /\ started' = started \cup {c}
    /\ UNCHANGED <<root, cur, pc, cells, reqs, result, reads, writes,
                   dropped, events, order, batches>>

\* The thunks of a batch writing one status shared by the batch
ThunkFinishShared(c) ==
    /\ pc = "run_all"
    /\ c \in running
    /\ running' = running \ {c}
    /\ cells' = [d \in 1..Len(cells) |->
                    IF d \in Cells(batches[Len(batches)])
                    THEN Written(reqs[c].out) ELSE cells[d]]
    /\ writes' = [writes EXCEPT ![c] = @ + 1]
    /\ order' = Append(order, c)
    /\ events' = IF reqs[c].out.tag = "Ok" THEN events
                 ELSE Append(events, Ev("req_error", reqs[c].out.e))
    /\ UNCHANGED <<root, cur, pc, reqs, pending, result, reads,
                   started, dropped, batches>>

\* request.run() returns and the thunk writes its status cell, lib.rs 89-93.
ThunkFinish(c) ==
    /\ pc = "run_all"
    /\ c \in running
    /\ running' = running \ {c}
    /\ cells' = [cells EXCEPT ![c] = Written(reqs[c].out)]
    /\ writes' = [writes EXCEPT ![c] = @ + 1]
    /\ order' = Append(order, c)
    /\ events' = IF reqs[c].out.tag = "Ok" THEN events
                 ELSE Append(events, Ev("req_error", reqs[c].out.e))
    /\ UNCHANGED <<root, cur, pc, reqs, pending, result, reads,
                   started, dropped, batches>>

\* run_all returning once every thunk was handed to a worker, without the join
RunAllReturnNoJoin ==
    /\ pc = "run_all"
    /\ pending = {}
    /\ pc' = "run"
    /\ UNCHANGED <<root, cur, cells, reqs, pending, running, result, reads,
                   writes, started, dropped, events, order, batches>>

\* run_all returning as soon as a request has failed, as try_for_each would
RunAllReturnOnError ==
    /\ pc = "run_all"
    /\ \/ pending = {} /\ running = {}
       \/ \E c \in Cells(batches[Len(batches)]) :
             cells[c].tag = "FetchException"
    /\ pc' = "run"
    /\ UNCHANGED <<root, cur, cells, reqs, pending, running, result, reads,
                   writes, started, dropped, events, order, batches>>

\* for_each returns once every thunk has run, lib.rs 39, and run goes on
\* with c.run(), lib.rs 176.
RunAllReturn ==
    /\ pc = "run_all"
    /\ pending = {}
    /\ running = {}
    /\ pc' = "run"
    /\ UNCHANGED <<root, cur, cells, reqs, pending, running, result, reads,
                   writes, started, dropped, events, order, batches>>

Next ==
    \/ Run
    \/ \E c \in pending : ThunkStart(c)
    \/ \E c \in running : ThunkFinish(c)
    \/ RunAllReturn

Spec == Init /\ [][Next]_vars

\* The programs the scheduling is followed on: every combinator over the
\* leaves, two requests in one batch, and binds nested to three batches.
FairPrograms ==
    Level1 \cup BindProgs \cup Ap2Progs
    \cup {bind(bind(m, k), h) : m \in Leaf, k \in KsNested, h \in KsNested}

FairInit == Init /\ root \in FairPrograms

\* The evaluator with its scheduling: run is a loop that goes on, and the
\* pool of run_all, lib.rs 39, runs every thunk it was given and returns.
FairSpec == FairInit /\ [][Next]_vars /\ WF_vars(Next)

-----------------------------------------------------------------------------
(* The claims.                                                             *)

Issued == UNION {Cells(batches[i]) : i \in 1..Len(batches)}
Finished(br) == \A c \in Cells(br) : writes[c] = 1 /\ c \notin running \cup pending

\* C1: whenever run forces a continuation (or has returned), every thunk of
\* every batch issued so far has finished and none is running or waiting;
\* while batch i+1 runs, batch i is finished; and no thunk has ever started
\* that was not in a batch handed to run_all.
C1_Barrier ==
    /\ \A i \in 1..(Len(batches) - 1) : Finished(batches[i])
    /\ pc # "run_all" =>
          /\ pending = {}
          /\ running = {}
          /\ \A i \in 1..Len(batches) : Finished(batches[i])
    /\ started \subseteq Issued

\* the continuation of a second batch is about to be forced, after a first
\* batch of two thunks
C1_Witness ==
    /\ pc = "run"
    /\ Len(batches) = 2
    /\ Cardinality(Cells(batches[1])) >= 2

\* C2: the continuation created by Fetch::new never finds its status cell
\* NotFetched: the unreachable!() arm is not reached in any run.
C2_ReaderNeverNotFetched == pc # "panic"

\* a run, of a program with catch in it, in which three cells were read, one of
\* them holding FetchException
C2_Witness ==
    /\ pc = "done"
    /\ root.tag = "catch"
    /\ Cardinality({c \in 1..Len(reads) : reads[c] = 1}) >= 3
    /\ \E i \in 1..Len(events) : events[i].ev = "handler"

\* C3: every step keeps each cell written at most once and read at most once;
\* a write takes the cell from NotFetched to FetchSuccess or FetchException,
\* by a thunk that never runs again; a read leaves it NotFetched; and after
\* its read a cell is neither written nor read again.
C3_WriteOnceReadOnce ==
    [][\A c \in 1..Len(cells') :
          /\ writes'[c] <= 1
          /\ reads'[c] <= 1
          /\ c \in started => c \notin pending'
          /\ c <= Len(cells) =>
                /\ writes'[c] # writes[c] =>
                      /\ cells[c].tag = "NotFetched"
                      /\ cells'[c].tag \in {"FetchSuccess", "FetchException"}
                /\ reads'[c] # reads[c] => cells'[c].tag = "NotFetched"
                /\ reads[c] = 1 =>
                      /\ writes'[c] = writes[c]
                      /\ reads'[c] = reads[c]
                      /\ cells'[c].tag = "NotFetched"]_vars

\* a run has ended with a cell written once and read once, and another cell
\* that was never written
C3_Witness ==
    /\ pc = "done"
    /\ \E c \in 1..Len(cells) : writes[c] = 1 /\ reads[c] = 1
    /\ \E c \in 1..Len(cells) : writes[c] = 0

\* The ids of the requests of a batch, in the order of the Vec.
ReqIds(br) == [i \in 1..Len(br) |-> reqs[br[i]].id]
IdSet(br) == {reqs[c].id : c \in Cells(br)}

\* C4: for ap2(pure(f), ma, mb) and ap(ap(pure(curried f), ma), mb) with ma
\* and mb a single new(req) each, run_all is called exactly once, with the
\* two requests, and run returns Ok(f(a, b)) when both requests succeed.
C4_OneBatchOfTwo ==
    root \in Ap2Progs =>
      /\ pc # "panic"
      /\ Len(batches) <= 1
      /\ (pc # "run" \/ batches # <<>>) =>
            /\ Len(batches) = 1
            /\ Len(batches[1]) = 2
            /\ IdSet(batches[1]) = {1, 2}
      /\ (/\ pc = "done"
          /\ root.f.x.request.out.tag = "Ok"
          /\ root.x.request.out.tag = "Ok") =>
            result = Ok(IntV(10 * root.f.x.request.out.v.n
                             + root.x.request.out.v.n))

\* ap2 has returned Ok(f(1, 2)) after mb's request finished before ma's
C4_Witness ==
    /\ root \in Ap2Progs
    /\ root.f.f.tag = "fmap"
    /\ pc = "done"
    /\ order = <<2, 1>>
    /\ result = Ok(IntV(12))

\* C5 as claimed: for ma.bind(|_| mb), ma and mb a single new(req) each, run
\* issues exactly two batches of size 1, ma's request then mb's.
C5_Original ==
    (root \in BindProgs /\ pc = "done") =>
      /\ Len(batches) = 2
      /\ ReqIds(batches[1]) = <<1>>
      /\ ReqIds(batches[2]) = <<2>>

\* C5 as amended: mb's request never starts before ma's request has
\* finished; when ma's request succeeds run issues exactly two batches of
\* size 1, ma's then mb's, and returns mb's result; when ma's request fails
\* run issues the one batch of ma's request, mb is never built, and run returns
\* ma's error.
C5_TwoBatchesWhenFirstSucceeds ==
    root \in BindProgs =>
      /\ pc # "panic"
      /\ \A c \in started :
            reqs[c].id = 2 =>
              \E c1 \in 1..Len(cells) : reqs[c1].id = 1 /\ writes[c1] = 1
      /\ pc = "done" =>
            IF root.m.request.out.tag = "Ok"
            THEN /\ Len(batches) = 2
                 /\ ReqIds(batches[1]) = <<1>>
                 /\ ReqIds(batches[2]) = <<2>>
                 /\ result = root.k.body.request.out
            ELSE /\ Len(batches) = 1
                 /\ ReqIds(batches[1]) = <<1>>
                 /\ Len(cells) = 1
                 /\ result = root.m.request.out

\* ma.bind(|_| mb) has returned Ok after two batches
C5_Witness ==
    /\ root \in BindProgs
    /\ pc = "done"
    /\ Len(batches) = 2
    /\ result.tag = "Ok"

\* The requests of the items of a sequence(), in the order they were folded.
RECURSIVE ItemsOf(_)
ItemsOf(t) ==
    IF t.tag = "pure" THEN <<>> ELSE Append(ItemsOf(t.f.m), t.x.request)

\* The result of the request with id i among rs.
OutOf(rs, i) == (CHOOSE j \in 1..Len(rs) : rs[j].id = i)

\* C6: for [new(r1), ..., new(rn)].sequence(), run issues exactly one batch,
\* holding the n requests (no batch when n = 0), and when all succeed returns
\* Ok([v1, ..., vn]) in the order of the input, in whatever order the
\* requests finish.
C6_SequenceOneBatchInOrder ==
    root \in SeqProgs =>
      LET rs == ItemsOf(root)
          n == Len(rs)
      IN  /\ pc # "panic"
          /\ Len(batches) <= 1
          /\ n = 0 => batches = <<>>
          /\ (n > 0 /\ (pc # "run" \/ batches # <<>>)) =>
                /\ Len(batches) = 1
                /\ Len(batches[1]) = n
                /\ IdSet(batches[1]) = 1..n
          /\ (pc = "done" /\ \A j \in 1..n : rs[j].out.tag = "Ok") =>
                result = Ok(VecV([i \in 1..n |-> rs[OutOf(rs, i)].out.v]))

\* a sequence of three requests has returned Ok([1, 2, 1]) after the requests
\* finished in the order 3, 1, 2
C6_Witness ==
    /\ root \in SeqProgs
    /\ pc = "done"
    /\ order = <<3, 1, 2>>
    /\ result = Ok(VecV(<<IntV(1), IntV(2), IntV(1)>>))

\* The Result of running the Fetch t on its own.
Alone(t) == run(t, EmptyHeap).res

\* C7 as claimed: whenever the m of catch(m, handler) ends in Throw(e), for
\* every Exception e, the handler has been invoked with it.
C7_Original ==
    (root.tag = "catch" /\ pc = "done" /\ Alone(root.f).tag = "Err") =>
      \E i \in 1..Len(events) :
         events[i].ev = "handler" /\ events[i].arg = Alone(root.f).e

\* C7 as amended: whenever forcing m, at once or after any number of batches,
\* yields Throw(Exception::Err(t)), the handler is invoked with t and the
\* step of catch is the step of handler(t), so that catch(m, handler) returns
\* what handler(t) returns; a Throw(Exception::Nothing) leaves catch as
\* Throw(Nothing) and the handler is not invoked for it.
C7_HandlerForcedOnErr ==
    /\ \A i \in 1..Len(events) :
          /\ events[i].ev = "uncaught" => events[i].arg = Nothing
          /\ events[i].ev = "handler" => events[i].arg.tag = "Err"
    /\ (root.tag = "catch" /\ pc = "done") =>
          LET m == Alone(root.f)
          IN  CASE m.tag = "Ok" -> result = m
                [] m.tag = "Err" /\ m.e.tag = "Err" ->
                      /\ result = Alone(HApply(root.handler, m.e.ty))
                      /\ \E i \in 1..Len(events) :
                            events[i].ev = "handler" /\ events[i].arg = m.e
                [] OTHER ->
                      /\ result = Err(Nothing)
                      /\ \E i \in 1..Len(events) : events[i].ev = "uncaught"

\* catch(m, handler) has returned what the handler's Fetch returns, m having
\* thrown after its second batch and the handler's Fetch having run a request
C7_Witness ==
    /\ root.tag = "catch"
    /\ pc = "done"
    /\ Len(batches) = 3
    /\ result = Ok(IntV(2))
    /\ \E i \in 1..Len(events) : events[i].ev = "handler"

RECURSIVE NoCatch(_)
NoCatch(t) ==
    CASE t.tag = "catch" -> FALSE
      [] t.tag = "bind" -> NoCatch(t.m)
      [] t.tag = "fmap" -> NoCatch(t.m)
      [] t.tag = "ap" -> NoCatch(t.f) /\ NoCatch(t.x)
      [] OTHER -> TRUE

\* The errors produced, by a request returning Err or by a throw being
\* forced, and the number of batches issued before each.
Produced == {i \in 1..Len(events) : events[i].ev \in {"req_error", "throw"}}
Epoch(i) == Cardinality({j \in 1..i : events[j].ev = "batch"})

\* C8: for a composition of ap and bind (no catch), the Err returned by run
\* is an error produced in the earliest batch in which any error was
\* produced.
C8_FirstErrorReturned ==
    (pc = "done" /\ NoCatch(root) /\ result.tag = "Err") =>
      \E i \in Produced :
         /\ events[i].arg = result.e
         /\ \A j \in Produced : Epoch(i) <= Epoch(j)

\* C9: for ap(mf, mx), if either arm, run on its own, ends in Throw (at once
\* or after any number of batches), then run of the ap returns Err.
C9_ThrowInEitherArm ==
    (root.tag = "ap" /\ pc = "done"
        /\ (Alone(root.f).tag = "Err" \/ Alone(root.x).tag = "Err")) =>
      result.tag = "Err"

\* ap(mf, mx) has returned Err after two batches, mx having thrown at the
\* first step and mf being free of errors
C9_Witness ==
    /\ root.tag = "ap"
    /\ pc = "done"
    /\ Len(batches) = 2
    /\ root.x.tag = "throw"
    /\ Alone(root.f).tag = "Ok"
    /\ result.tag = "Err"

\* The first steps of the arms of ap(mf, mx).
FirstF(t) == force(t.f, EmptyHeap)
FirstX(t) == force(t.x, FirstF(t).h)

\* C10: the requests that the (Throw, _) arm of ap discards are never handed
\* to run_all, never started nor written, and their cells never read; when
\* the first step of mf is Throw(e), run returns Err(e) without any batch;
\* when the first step of mf is Blocked(rs, _) and that of mx is Throw, the
\* requests rs are executed.
C10_ThrowInFDropsX ==
    /\ \A c \in dropped :
          c \notin Issued /\ c \notin started /\ writes[c] = 0 /\ reads[c] = 0
    /\ (root.tag = "ap" /\ pc = "done" /\ FirstF(root).r.tag = "Throw") =>
          /\ result = Err(FirstF(root).r.e)
          /\ batches = <<>>
          /\ started = {}
    /\ (root.tag = "ap" /\ pc = "done" /\ FirstF(root).r.tag = "Blocked"
          /\ FirstX(root).r.tag = "Throw") =>
          \A c \in Cells(FirstF(root).r.br) : c \in started /\ writes[c] = 1

\* ap has returned the Throw of mf, produced after a batch, and discarded
\* the requests of the second step of mx
C10_Witness ==
    /\ root.tag = "ap"
    /\ pc = "done"
    /\ Len(batches) = 1
    /\ dropped # {}
    /\ result.tag = "Err"

\* The events that are the reading of a failed request's cell.
ReadErrors == {i \in 1..Len(events) : events[i].ev = "read_error"}

\* C11: when two single-request fetches are composed with ap in one batch
\* and a request fails with Exception::Err, run goes on, and the Throw is
\* produced, only once both requests of the batch have started and
\* finished; the run ends in Err with both cells written.
C11_SiblingCompletesBeforeThrow ==
    (/\ root \in Ap2Progs
     /\ \E r \in {root.f.x.request, root.x.request} :
           r.out.tag = "Err" /\ r.out.e.tag = "Err") =>
      /\ pc # "panic"
      /\ (pc \in {"run", "done"} /\ batches # <<>>) =>
            \A c \in Cells(batches[1]) : c \in started /\ writes[c] = 1
      /\ ReadErrors # {} =>
            /\ Len(order) = 2
            /\ \A c \in Cells(batches[1]) : writes[c] = 1
      /\ pc = "done" =>
            /\ result.tag = "Err"
            /\ ReadErrors # {}
            /\ Len(batches) = 1 /\ Len(batches[1]) = 2

\* ap of two requests has returned the Err of the first request, which
\* failed before the second one, a success, finished
C11_Witness ==
    /\ root \in Ap2Progs
    /\ pc = "done"
    /\ order = <<1, 2>>
    /\ root.f.x.request.out = Err(ErrE(Msg))
    /\ root.x.request.out.tag = "Ok"
    /\ result = Err(ErrE(Msg))

\* t is built from new, pure, bind, fmap and ap (sequence is a fold of
\* these), its continuations build such fetches, and every request of t
\* that fails does so with Exception::Err(_).
RECURSIVE OnlyErrFailures(_)
RECURSIVE OnlyErrFailuresK(_)
OnlyErrFailures(t) ==
    CASE t.tag = "pure" -> TRUE
      [] t.tag = "new" ->
            t.request.out.tag = "Err" => t.request.out.e.tag = "Err"
      [] t.tag = "bind" -> OnlyErrFailures(t.m) /\ OnlyErrFailuresK(t.k)
      [] t.tag = "fmap" -> OnlyErrFailures(t.m)
      [] t.tag = "ap" -> OnlyErrFailures(t.f) /\ OnlyErrFailures(t.x)
      [] OTHER -> FALSE

OnlyErrFailuresK(k) ==
    CASE k.kind = "const" -> OnlyErrFailures(k.body)
      [] k.kind = "compose" -> OnlyErrFailuresK(k.k) /\ OnlyErrFailuresK(k.h)
      [] OTHER -> TRUE

\* C12: catch(m, handler).run() returns Ok whenever the handler returns a
\* pure Fetch for every ExceptionType (error_page) and m, built from new,
\* pure, bind, fmap, ap and sequence, has only requests that succeed or
\* fail with Exception::Err(_), in whatever batch the failure occurs.
C12_TotalHandlerGivesOk ==
    (/\ root.tag = "catch"
     /\ root.handler.kind = "error_page"
     /\ OnlyErrFailures(root.f)) =>
      /\ pc # "panic"
      /\ pc = "done" => result.tag = "Ok"
      /\ \A i \in 1..Len(events) : events[i].ev # "uncaught"

\* a request of the second batch of m has failed with Err(Timeout), the
\* handler has been called and the run has returned Ok
C12_Witness ==
    /\ root = catch(bind(new(FnRequest(1, Ok(IntV(1)))),
                         KConst(new(FnRequest(2, Err(ErrE(Timeout)))))),
                    [kind |-> "error_page"])
    /\ pc = "done"
    /\ Len(batches) = 2
    /\ \E i \in 1..Len(events) : events[i] = Ev("handler", ErrE(Timeout))
    /\ result.tag = "Ok"

\* C13: no request runs before run reaches the Blocked step that holds it.
\* Nothing has run after construction; a step of run that forces the Fetch
\* only creates cells, all NotFetched and none started; a request starts,
\* and its cell is written, only inside run_all and only for a thunk of the
\* batch run_all was called with.
C13_RequestsRunOnlyInRunAll ==
    /\ started = {} /\ cells = <<>>
    /\ [][/\ \A c \in (Len(cells) + 1)..Len(cells') :
               /\ pc = "run"
               /\ cells'[c] = NotFetched
               /\ c \notin started'
               /\ writes'[c] = 0
          /\ \A c \in 1..Len(cells) :
               (\/ c \in started' \ started
                \/ writes'[c] # writes[c]
                \/ cells[c] = NotFetched /\ cells'[c] # NotFetched) =>
                   /\ pc = "run_all"
                   /\ batches # <<>>
                   /\ c \in Cells(batches[Len(batches)])]_vars

\* forcing ap(a, b) has created the cells of both requests and the batch,
\* run_all is entered, and no request has started yet
C13_Witness ==
    /\ root \in Ap2Progs
    /\ pc = "run_all"
    /\ Len(cells) = 2
    /\ batches = <<(<<1, 2>>)>>
    /\ started = {}
    /\ cells[1] = NotFetched /\ cells[2] = NotFetched

\* C14: the value run returns does not depend on the order or interleaving
\* of the thunks of a batch, nor on the order vec_merge gave the batch.
\* Whatever the schedule, when every thunk of a batch is done each cell of
\* the batch holds the outcome of its own request, and the run ends with
\* the Result, and the number of batches, of the run that executes the
\* thunks one after the other.
C14_ResultIndependentOfSchedule ==
    /\ pc # "panic"
    /\ (pc = "run_all" /\ pending = {} /\ running = {}) =>
          \A c \in Cells(batches[Len(batches)]) :
              cells[c] = Written(reqs[c].out)
    /\ pc = "done" =>
          /\ result = Alone(root)
          /\ Len(batches) = run(root, EmptyHeap).n

\* a batch of three that vec_merge has swapped, <<2, 3, 1>>, whose thunks
\* finished in the order 3, 1, 2, has ended in Ok
C14_Witness ==
    /\ pc = "done"
    /\ batches = <<(<<2, 3, 1>>)>>
    /\ order = <<3, 1, 2>>
    /\ result.tag = "Ok"
    /\ result = Alone(root)

\* The requests of the batches issued so far, batch by batch, in the order
\* of the Vec given to run_all.
BatchReqs ==
    [i \in 1..Len(batches) |->
        [j \in 1..Len(batches[i]) |-> reqs[batches[i][j]]]]

\* m.bind(k).bind(h) for a root m.bind(|x| k(x).bind(h)), and the converse.
Reassociated(t) ==
    IF t.k.kind = "compose"
    THEN bind(bind(t.m, t.k.k), t.k.h)
    ELSE bind(t.m.m, Compose(t.m.k, t.k))

IsNestedBind(t) ==
    /\ t.tag = "bind"
    /\ t.k.kind = "compose" \/ t.m.tag = "bind"

\* C15: bind is associative.  Running m.bind(k).bind(h) issues, batch by
\* batch, the requests that m.bind(|x| k(x).bind(h)) issues, and returns
\* the same Result; and conversely.
C15_BindAssociative ==
    IsNestedBind(root) =>
        LET other == run(Reassociated(root), EmptyHeap)
        IN  /\ pc # "panic"
            /\ Len(batches) <= other.n
            /\ \A i \in 1..Len(batches) : BatchReqs[i] = other.bs[i]
            /\ pc = "done" =>
                  /\ result = other.res
                  /\ Len(batches) = other.n

\* new(r).bind(k).bind(h), with k and h issuing a request each from the
\* value they get, has run its three batches and returned Ok(3)
C15_Witness ==
    /\ root = bind(bind(new(FnRequest(0, Ok(IntV(1)))),
                        [kind |-> "req", id |-> 0]),
                   [kind |-> "req", id |-> 0])
    /\ pc = "done"
    /\ Len(batches) = 3
    /\ result = Ok(IntV(3))
    /\ result = run(Reassociated(root), EmptyHeap).res

\* The step forcing t now would produce is not a Blocked with no request.
NonEmptyStep(t) ==
    LET o == force(t, Heap)
    IN  o.r.tag = "Blocked" => o.r.br # <<>>

\* C16: every Blocked step holds at least one request, and run_all is
\* never called with an empty batch: every batch run has issued is
\* non-empty, run_all is entered with a thunk to run, and the step that
\* forcing the current Fetch, or an arm of it, produces, even one that ap
\* then drops, is not a Blocked without requests.
C16_BlockedNeverEmpty ==
    /\ \A i \in 1..Len(batches) : Len(batches[i]) >= 1
    /\ pc = "run_all" => batches # <<>> /\ Cells(batches[Len(batches)]) # {}
    /\ pc = "run" =>
          /\ NonEmptyStep(cur)
          /\ cur.tag = "ap" => NonEmptyStep(cur.f) /\ NonEmptyStep(cur.x)
          /\ cur.tag \in {"bind", "fmap"} => NonEmptyStep(cur.m)
          /\ cur.tag = "catch" => NonEmptyStep(cur.f)

\* ap of a two-batch arm and a one-batch arm is in its second run_all,
\* after a first batch of two requests, with the one request left
C16_Witness ==
    /\ root.tag = "ap"
    /\ pc = "run_all"
    /\ Len(batches) = 2
    /\ Len(batches[1]) = 2
    /\ Len(batches[2]) = 1
    /\ pending = Cells(batches[2])

\* The number of times the request r is in the list rs.
Count(rs, r) == Cardinality({j \in 1..Len(rs) : rs[j] = r})

\* The i-th batch of a run whose batches are bs, empty past its last batch.
BatchOf(bs, i) == IF i <= Len(bs) THEN bs[i] ELSE <<>>

Max(a, b) == IF a >= b THEN a ELSE b

\* C17: when mf and mx, run alone, end without a Throw, the i-th batch of
\* ap(mf, mx) holds the requests of the i-th batch of mf and those of the
\* i-th batch of mx, each as many times as there, and ap(mf, mx) issues
\* max(batches(mf), batches(mx)) batches; when m ends in Ok(a), m.bind(k)
\* issues batches(m) + batches(k(a)) batches.
C17_ApLockstepBindSequential ==
    /\ (/\ root.tag = "ap"
        /\ Alone(root.f).tag = "Ok"
        /\ Alone(root.x).tag = "Ok") =>
          LET mf == run(root.f, EmptyHeap)
              mx == run(root.x, EmptyHeap)
          IN  /\ Len(batches) <= Max(mf.n, mx.n)
              /\ pc = "done" => Len(batches) = Max(mf.n, mx.n)
              /\ \A i \in 1..Len(batches) :
                    /\ Len(batches[i]) =
                          Len(BatchOf(mf.bs, i)) + Len(BatchOf(mx.bs, i))
                    /\ \A j \in 1..Len(batches[i]) :
                          LET r == BatchReqs[i][j]
                          IN  Count(BatchReqs[i], r) =
                                Count(BatchOf(mf.bs, i), r)
                                + Count(BatchOf(mx.bs, i), r)
    /\ (/\ root.tag = "bind"
        /\ Alone(root.m).tag = "Ok") =>
          LET m == run(root.m, EmptyHeap)
              ka == run(KApply(root.k, m.res.v), EmptyHeap)
          IN  /\ Len(batches) <= m.n + ka.n
              /\ pc = "done" => Len(batches) = m.n + ka.n

\* ap of an arm of two batches and an arm of one batch has ended in Ok
\* after two batches, the first one of two requests
C17_Witness ==
    /\ root.tag = "ap"
    /\ pc = "done"
    /\ result.tag = "Ok"
    /\ run(root.f, EmptyHeap).n = 2
    /\ run(root.x, EmptyHeap).n = 1
    /\ Len(batches) = 2
    /\ Len(batches[1]) = 2 /\ Len(batches[2]) = 1

\* The number of calls of a continuation of bind (kind "k") or of a
\* function of fmap (kind "f") in the history es.
Calls(es, kind) == Cardinality({i \in 1..Len(es) : es[i].ev = kind})

\* C18: when m ends in Throw(e), m.bind(k) and m.fmap(f) end in the same
\* Throw(e) without calling k or f: the run makes no call of a
\* continuation or function beyond those m makes by itself, creates no
\* request beyond those of m, and issues the batches of m only.
C18_ThrowSkipsContinuation ==
    (/\ root.tag \in {"bind", "fmap"}
     /\ Alone(root.m).tag = "Err") =>
        LET m == run(root.m, EmptyHeap)
        IN  /\ pc # "panic"
            /\ Calls(events, "k") <= Calls(m.h.events, "k")
            /\ Calls(events, "f") <= Calls(m.h.events, "f")
            /\ Len(cells) <= Len(m.h.cells)
            /\ Len(batches) <= m.n
            /\ pc = "done" =>
                  /\ result = m.res
                  /\ Len(cells) = Len(m.h.cells)
                  /\ Len(batches) = m.n

\* new(r).bind(|_| new(r2)), with r failing with Err(Timeout), has ended
\* in that Err after one batch, without a call of k or a second request
C18_Witness ==
    /\ root = bind(new(FnRequest(0, Err(ErrE(Timeout)))),
                   KConst(new(FnRequest(0, Ok(IntV(1))))))
    /\ pc = "done"
    /\ result = Err(ErrE(Timeout))
    /\ Calls(events, "k") = 0
    /\ Len(cells) = 1
    /\ Len(batches) = 1

\* The number of catch nodes of t.
RECURSIVE CatchCount(_)
CatchCount(t) ==
    CASE t.tag = "catch" -> 1 + CatchCount(t.f)
      [] t.tag = "bind" -> CatchCount(t.m)
      [] t.tag = "fmap" -> CatchCount(t.m)
      [] t.tag = "ap" -> CatchCount(t.f) + CatchCount(t.x)
      [] OTHER -> 0

\* C19: the handler of a catch is called at most once over a run.  The
\* run calls handlers no more often than the Fetch has catch nodes; for
\* catch(m, handler) with no catch in m the handler is called at most once,
\* and when the Fetch it returned ends in a Throw, at once or after batches
\* of its own and even with an Exception::Err, that Throw is what run
\* returns.
C19_HandlerAtMostOnce ==
    /\ Calls(events, "handler") <= CatchCount(root)
    /\ (root.tag = "catch" /\ NoCatch(root.f)) =>
          /\ Calls(events, "handler") <= 1
          /\ \A i \in 1..Len(events) :
                (events[i].ev = "handler" /\ pc = "done") =>
                   LET hr == Alone(HApply(root.handler, events[i].arg.ty))
                   IN  hr.tag = "Err" => result = hr

\* the handler's Fetch, called for Err(Timeout), has run a request of its
\* own that failed with Err(Timeout); the handler was not called again and
\* run has returned that Err
C19_Witness ==
    /\ root = catch(new(FnRequest(0, Err(ErrE(Timeout)))),
                    KConst(new(FnRequest(0, Err(ErrE(Timeout))))))
    /\ pc = "done"
    /\ Len(batches) = 2
    /\ Calls(events, "handler") = 1
    /\ Calls(events, "read_error") = 2
    /\ result = Err(ErrE(Timeout))

\* The size of a Fetch: the nodes of its tree, with those of the largest
\* Fetch a continuation or handler of it can return, a new counting for
\* two (the closure and the continuation it leaves).
RECURSIVE Weight(_)
RECURSIVE WeightK(_)
Weight(t) ==
    CASE t.tag = "new" -> 2
      [] t.tag = "bind" -> 1 + Weight(t.m) + WeightK(t.k)
      [] t.tag = "fmap" -> 1 + Weight(t.m)
      [] t.tag = "ap" -> 1 + Weight(t.f) + Weight(t.x)
      [] t.tag = "catch" -> 1 + Weight(t.f) + WeightK(t.handler)
      [] OTHER -> 1

WeightK(k) ==
    CASE k.kind = "const" -> Weight(k.body)
      [] k.kind = "req" -> 2
      [] k.kind = "compose" -> 1 + WeightK(k.k) + WeightK(k.h)
      [] OTHER -> 1

\* C20: run terminates.  Under fair scheduling every run reaches its end
\* with Ok or Err; each Blocked step adds one batch, is followed by one
\* run_all, which returns, and leaves a continuation strictly smaller than
\* the Fetch that was forced.
C20_RunTerminates ==
    /\ [][(pc = "run" /\ pc' = "run_all") =>
            /\ Weight(cur') < Weight(cur)
            /\ Len(batches') = Len(batches) + 1]_vars
    /\ [][(pc = "run_all" /\ pc' # "run_all") =>
            pc' = "run" /\ cur' = cur /\ batches' = batches]_vars
    /\ [](pc = "done" => result.tag \in {"Ok", "Err"})
    /\ (pc = "run_all") ~> (pc = "run")
    /\ <>(pc = "done")

\* a run of three batches has ended
C20_Witness ==
    /\ pc = "done"
    /\ Len(batches) = 3
    /\ Weight(cur) < Weight(root)
    /\ result.tag \in {"Ok", "Err"}

====
